---- MODULE Spec2Model ----
(***************************************************************************)
(* Routing engine of the Kampala transport system: SimpleGraph (graph.py), *)
(* ShortestPath.dijkstra / a_star (shortest_path.py), MultiStopRouter      *)
(* .greedy_tsp (heuristics.py) and ParallelProcessor.simple_parallel       *)
(* (parallel.py).  Latitudes and longitudes are scaled integers            *)
(* (hundredths of a degree); travel times are positive integers.           *)
(***************************************************************************)
EXTENDS Integers, Sequences, FiniteSets, TLC

VARIABLES adjacency, positions, grid, phase, nEdgeCalls, nNodeCalls, query, dj, ast, tsp, batch

graphVars == <<adjacency, positions, grid>>
buildVars == <<adjacency, positions, grid, phase, nEdgeCalls, nNodeCalls>>
pathVars == <<query, dj, ast>>
vars == <<adjacency, positions, grid, phase, nEdgeCalls, nNodeCalls, query, dj, ast, tsp, batch>>

(* ------------------------------ bounds -------------------------------- *)

\* node ids are 0..MaxNode
MaxNode == 2
\* number of add_edge calls of a run
MaxEdges == 3
\* number of add_node calls of a run that goes on to route
MaxNodeAdds == 1
\* number of add_edge calls of a run that goes on to serve one query after
\* another
MaxQueryEdges == 1
\* number of add_node calls and of add_edge calls of a run that only builds
MaxGridNodeAdds == 2
MaxGraphEdges == 2
\* length of the stop list handed to greedy_tsp
MaxStops == 3
\* number of add_edge calls of a run that goes on to a batch
MaxBatchEdges == 2
\* length of the request list handed to simple_parallel
MaxRequests == 2
\* pool sizes 1..MaxWorkers
MaxWorkers == 2

NodeIds == 0..MaxNode
\* travel times offered to add_edge: two hops of 1 tie with a road of 2 and
\* beat a road of 3
Weights == {1, 2, 3}
\* (lat, lon) in hundredths of a degree offered to add_node in the routing runs
FewPositions == {<<31, 3257>>, <<29, 3250>>}
\* (lat, lon) in hundredths of a degree offered to add_node in the building
\* runs: inside the box 0.30 <= lat < 0.80, 32.50 <= lon < 33.00 at its corners
\* and inside, just below each lower bound, and on each upper bound.  At each
\* of them the float expression of graph.py and the scaled integers agree.
GridPositions ==
    {<<30, 3250>>, <<31, 3257>>, <<79, 3299>>,
     <<29, 3250>>, <<30, 3249>>, <<80, 3257>>, <<55, 3300>>}

(* --------------------------- Python helpers --------------------------- *)

\* float('inf'): a value no finite cost equals
Inf == -1

\* None
None == -2

\* a < b on numbers extended with float('inf')
PyLt(a, b) == a # Inf /\ (b = Inf \/ a < b)

\* a > b on numbers extended with float('inf')
PyGt(a, b) == PyLt(b, a)

\* dict.get(k, default)
DictGet(d, k, default) == IF k \in DOMAIN d THEN d[k] ELSE default

\* d[k] = v on a dict (insert or overwrite)
DictSet(d, k, v) == [x \in (DOMAIN d) \cup {k} |-> IF x = k THEN v ELSE d[x]]

EmptyDict == [x \in {} |-> 0]

\* F(v), with v evaluated once before F is applied to its value (the loops
\* below thread their state through it, as a Python loop threads its locals)
Bind(v, F(_)) == CHOOSE r \in {F(x) : x \in {v}} : TRUE

\* list.count(x): how many times x occurs in the list seq
Count(seq, x) == Cardinality({i \in 1..Len(seq) : seq[i] = x})

\* int(n / d) for d > 0: Python's int() truncates toward zero
PyInt(n, d) == IF n >= 0 THEN n \div d ELSE -((-n) \div d)

\* tuple comparison t1 < t2 of two equal-length tuples of numbers
RECURSIVE TupleLt(_, _)
TupleLt(t1, t2) ==
    IF t1 = <<>> \/ t2 = <<>> THEN Len(t1) < Len(t2)
    ELSE IF Head(t1) # Head(t2) THEN Head(t1) < Head(t2)
    ELSE TupleLt(Tail(t1), Tail(t2))

\* (mutant) a plain FIFO queue in place of the heap
heappushFifo(pq, item) == Append(pq, item)

\* heapq.heappush: the queue is kept as the sorted list of its entries
RECURSIVE heappush(_, _)
heappush(pq, item) ==
    IF pq = <<>> THEN <<item>>
    ELSE IF TupleLt(item, Head(pq)) THEN <<item>> \o pq
    ELSE <<Head(pq)>> \o heappush(Tail(pq), item)

\* heapq.heappop: the smallest entry, and the queue without it
heappop(pq) == [item |-> Head(pq), rest |-> Tail(pq)]

(* ------------------------------ graph.py ------------------------------ *)

GridRange == 0..9

\* SimpleGraph.__init__
GraphInit ==
    /\ adjacency = EmptyDict
    /\ positions = EmptyDict
    /\ grid = [x \in GridRange |-> [y \in GridRange |-> <<>>]]

grid_x(lat) == PyInt((lat - 30) * 20, 100)
grid_y(lon) == PyInt((lon - 3250) * 20, 100)

\* SimpleGraph.add_node
add_node(node_id, lat, lon) ==
    /\ adjacency' = DictSet(adjacency, node_id, <<>>)
    /\ positions' = DictSet(positions, node_id, <<lat, lon>>)
    /\ grid' = IF grid_x(lat) \in GridRange /\ grid_y(lon) \in GridRange
               THEN [grid EXCEPT ![grid_x(lat)][grid_y(lon)] = Append(@, node_id)]
               ELSE grid

\* (mutant) the edge is stored at to_node with another travel time
add_edgeSkewed(from_node, to_node, travel_time) ==
    LET a1 == IF from_node \notin DOMAIN adjacency
              THEN DictSet(adjacency, from_node, <<>>) ELSE adjacency
        a2 == IF to_node \notin DOMAIN a1 THEN DictSet(a1, to_node, <<>>) ELSE a1
        a3 == [a2 EXCEPT ![from_node] = Append(@, <<to_node, travel_time>>)]
        a4 == [a3 EXCEPT ![to_node] = Append(@, <<from_node, travel_time + 1>>)]
    IN  /\ adjacency' = a4
        /\ UNCHANGED <<positions, grid>>

\* (mutant) the edge is stored at from_node only
add_edgeOneWay(from_node, to_node, travel_time) ==
    LET a1 == IF from_node \notin DOMAIN adjacency
              THEN DictSet(adjacency, from_node, <<>>) ELSE adjacency
        a2 == IF to_node \notin DOMAIN a1 THEN DictSet(a1, to_node, <<>>) ELSE a1
        a3 == [a2 EXCEPT ![from_node] = Append(@, <<to_node, travel_time>>)]
    IN  /\ adjacency' = a3
        /\ UNCHANGED <<positions, grid>>

\* SimpleGraph.add_edge
add_edge(from_node, to_node, travel_time) ==
    LET a1 == IF from_node \notin DOMAIN adjacency
              THEN DictSet(adjacency, from_node, <<>>) ELSE adjacency
        a2 == IF to_node \notin DOMAIN a1 THEN DictSet(a1, to_node, <<>>) ELSE a1
        a3 == [a2 EXCEPT ![from_node] = Append(@, <<to_node, travel_time>>)]
        a4 == [a3 EXCEPT ![to_node] = Append(@, <<from_node, travel_time>>)]
    IN  /\ adjacency' = a4
        /\ UNCHANGED <<positions, grid>>

\* SimpleGraph.get_neighbors
get_neighbors(node_id) == DictGet(adjacency, node_id, <<>>)

(* --------------------------- shortest_path.py ------------------------- *)

Idle == [pc |-> "idle"]

\* ShortestPath.dijkstra, lines 8-10: the state a call allocates
DijkstraInit(start, end) ==
    [pc |-> "loop", start |-> start, end |-> end,
     pq |-> <<<<0, start>>>>,
     distances |-> DictSet(EmptyDict, start, 0),
     previous |-> EmptyDict,
     popped |-> <<>>, relaxed |-> <<>>]

\* lines 22-27: the body of the for loop, for one (neighbor, travel_time)
DijkstraRelaxOne(st, current_dist, current, neighbor, travel_time) ==
    LET new_dist == current_dist + travel_time
    IN  IF PyLt(new_dist, DictGet(st.distances, neighbor, Inf))
        THEN [st EXCEPT !.distances = DictSet(@, neighbor, new_dist),
                        !.previous = DictSet(@, neighbor, current),
                        !.pq = heappush(@, <<new_dist, neighbor>>)]
        ELSE st

\* lines 21-27: the for loop over the neighbours of current, from the i-th on
RECURSIVE DijkstraRelax(_, _, _, _, _)
DijkstraRelax(st, current_dist, current, nbrs, i) ==
    IF i > Len(nbrs) THEN st
    ELSE Bind(DijkstraRelaxOne(st, current_dist, current, nbrs[i][1], nbrs[i][2]),
              LAMBDA s2 : DijkstraRelax(s2, current_dist, current, nbrs, i + 1))

\* (mutant) the stale test of lines 18-19 is missing
DijkstraLoopNoStale(st) ==
    IF st.pq = <<>> THEN [st EXCEPT !.pc = "path"]
    ELSE LET top == heappop(st.pq)
             current_dist == top.item[1]
             current == top.item[2]
             s1 == [st EXCEPT !.pq = top.rest, !.popped = Append(@, current)]
         IN  IF current = st.end THEN [s1 EXCEPT !.pc = "path"]
             ELSE Bind([s1 EXCEPT !.relaxed = Append(@, current)],
                       LAMBDA s2 : DijkstraRelax(s2, current_dist, current,
                                                 get_neighbors(current), 1))

\* lines 12-27: one evaluation of the while condition and one pass of its body
DijkstraLoop(st) ==
    IF st.pq = <<>> THEN [st EXCEPT !.pc = "path"]
    ELSE LET top == heappop(st.pq)
             current_dist == top.item[1]
             current == top.item[2]
             s1 == [st EXCEPT !.pq = top.rest, !.popped = Append(@, current)]
         IN  IF current = st.end THEN [s1 EXCEPT !.pc = "path"]
             ELSE IF PyGt(current_dist, DictGet(st.distances, current, Inf)) THEN s1
             ELSE Bind([s1 EXCEPT !.relaxed = Append(@, current)],
                       LAMBDA s2 : DijkstraRelax(s2, current_dist, current,
                                                 get_neighbors(current), 1))

\* lines 31-33 (and 65-67): the walk back along previous, collecting path
RECURSIVE WalkBack(_, _, _)
WalkBack(previous, current, path) ==
    IF current \in DOMAIN previous
    THEN WalkBack(previous, previous[current], Append(path, current))
    ELSE path

\* (mutant) the path is returned as collected, end first
ReversedNot(s) == s

\* list(reversed(path))
RECURSIVE Reversed(_)
Reversed(s) == IF s = <<>> THEN <<>> ELSE Append(Reversed(Tail(s)), Head(s))

\* (mutant) a missing distance defaults to 0
DijkstraReturnZero(st) ==
    [path |-> Reversed(Append(WalkBack(st.previous, st.end, <<>>), st.start)),
     cost |-> DictGet(st.distances, st.end, 0)]

\* lines 29-36: path reconstruction and the returned (path, cost)
DijkstraReturn(st) ==
    [path |-> Reversed(Append(WalkBack(st.previous, st.end, <<>>), st.start)),
     cost |-> DictGet(st.distances, st.end, Inf)]

\* ShortestPath.a_star, lines 39-43
AStarInit(start, end) ==
    [pc |-> "loop", start |-> start, end |-> end,
     g_score |-> DictSet(EmptyDict, start, 0),
     f_score |-> DictSet(EmptyDict, start, 0),
     pq |-> <<<<0, 0, start>>>>,
     previous |-> EmptyDict,
     popped |-> <<>>, relaxed |-> <<>>]

\* lines 55-61: the body of the for loop, for one (neighbor, travel_time)
AStarRelaxOne(st, current_g, current, neighbor, travel_time) ==
    LET tentative_g == current_g + travel_time
    IN  IF PyLt(tentative_g, DictGet(st.g_score, neighbor, Inf))
        THEN [st EXCEPT !.previous = DictSet(@, neighbor, current),
                        !.g_score = DictSet(@, neighbor, tentative_g),
                        !.f_score = DictSet(@, neighbor, tentative_g),
                        !.pq = heappush(@, <<tentative_g, tentative_g, neighbor>>)]
        ELSE st

\* lines 54-61: the for loop over the neighbours of current, from the i-th on
RECURSIVE AStarRelax(_, _, _, _, _)
AStarRelax(st, current_g, current, nbrs, i) ==
    IF i > Len(nbrs) THEN st
    ELSE Bind(AStarRelaxOne(st, current_g, current, nbrs[i][1], nbrs[i][2]),
              LAMBDA s2 : AStarRelax(s2, current_g, current, nbrs, i + 1))

\* (mutant) the stale test is >= : an entry as good as the best is skipped
AStarLoopGe(st) ==
    IF st.pq = <<>> THEN [st EXCEPT !.pc = "path"]
    ELSE LET top == heappop(st.pq)
             current_g == top.item[2]
             current == top.item[3]
             s1 == [st EXCEPT !.pq = top.rest, !.popped = Append(@, current)]
         IN  IF current = st.end THEN [s1 EXCEPT !.pc = "path"]
             ELSE IF ~PyLt(current_g, DictGet(st.g_score, current, Inf)) THEN s1
             ELSE Bind([s1 EXCEPT !.relaxed = Append(@, current)],
                       LAMBDA s2 : AStarRelax(s2, current_g, current,
                                              get_neighbors(current), 1))

\* lines 45-61
AStarLoop(st) ==
    IF st.pq = <<>> THEN [st EXCEPT !.pc = "path"]
    ELSE LET top == heappop(st.pq)
             current_g == top.item[2]
             current == top.item[3]
             s1 == [st EXCEPT !.pq = top.rest, !.popped = Append(@, current)]
         IN  IF current = st.end THEN [s1 EXCEPT !.pc = "path"]
             ELSE IF PyGt(current_g, DictGet(st.g_score, current, Inf)) THEN s1
             ELSE Bind([s1 EXCEPT !.relaxed = Append(@, current)],
                       LAMBDA s2 : AStarRelax(s2, current_g, current,
                                              get_neighbors(current), 1))

\* (mutant) path.append(start) is missing
AStarReturnNoStart(st) ==
    [path |-> Reversed(WalkBack(st.previous, st.end, <<>>)),
     cost |-> DictGet(st.g_score, st.end, Inf)]

\* lines 63-70
AStarReturn(st) ==
    [path |-> Reversed(Append(WalkBack(st.previous, st.end, <<>>), st.start)),
     cost |-> DictGet(st.g_score, st.end, Inf)]

\* a_star run to the end of its while loop
RECURSIVE AStarRun(_)
AStarRun(st) == IF st.pc = "path" THEN st ELSE Bind(AStarLoop(st), AStarRun)

\* ShortestPath.a_star as one call: the (path, cost) it returns
a_star(start, end) == Bind(AStarRun(AStarInit(start, end)), AStarReturn)

(* ----------------------------- heuristics.py -------------------------- *)

\* the truth value Python gives a stop id or None in "if nearest:"
Truthy(x) == x # None /\ x # 0

\* the orders in which a set of stops can be iterated
Orders(S) == {o \in [1..Cardinality(S) -> S] : \A i, j \in 1..Cardinality(S) : o[i] = o[j] => i = j}

\* (mutant) the early return is missing
TspBeginNoGuard(stops) ==
    IF Len(stops) < 1
    THEN [pc |-> "raised", stops |-> stops, asked |-> {}]
    ELSE [pc |-> "while", stops |-> stops, asked |-> {},
          unvisited |-> {stops[i] : i \in 2..Len(stops)},
          current |-> stops[1], route |-> <<stops[1]>>, total_time |-> 0,
          nearest |-> None, min_time |-> Inf]

\* MultiStopRouter.greedy_tsp, lines 10-16
TspBegin(stops) ==
    IF Len(stops) < 2
    THEN [pc |-> "done", stops |-> stops, asked |-> {},
          result |-> [route |-> stops, cost |-> 0]]
    ELSE [pc |-> "while", stops |-> stops, asked |-> {},
          unvisited |-> {stops[i] : i \in 2..Len(stops)},
          current |-> stops[1], route |-> <<stops[1]>>, total_time |-> 0,
          nearest |-> None, min_time |-> Inf]

\* lines 23-26: the body of the for loop, for one stop, given what a_star returned
TspForOne(st, stop, time) ==
    IF PyLt(time, st.min_time)
    THEN [st EXCEPT !.asked = @ \cup {<<st.current, stop>>},
                    !.min_time = time, !.nearest = stop]
    ELSE [st EXCEPT !.asked = @ \cup {<<st.current, stop>>}]

\* lines 22-26: the for loop, visiting the stops order[i], order[i+1], ...
RECURSIVE TspFor(_, _, _)
TspFor(st, order, i) ==
    IF i > Len(order) THEN st
    ELSE Bind(Bind(a_star(st.current, order[i]).cost,
                   LAMBDA time : TspForOne(st, order[i], time)),
              LAMBDA s2 : TspFor(s2, order, i + 1))

\* lines 19-26: nearest and min_time are reset and the unvisited stops scanned
TspScanned(st, order) ==
    Bind([st EXCEPT !.nearest = None, !.min_time = Inf],
         LAMBDA s1 : [TspFor(s1, order, 1) EXCEPT !.pc = "if"])

\* (mutant) current is not advanced to the stop just visited
TspAdvancedStay(st) ==
    IF Truthy(st.nearest)
    THEN [st EXCEPT !.route = Append(@, st.nearest),
                    !.total_time = @ + st.min_time,
                    !.unvisited = @ \ {st.nearest},
                    !.pc = "while"]
    ELSE [st EXCEPT !.pc = "while"]

\* lines 28-32
TspAdvanced(st) ==
    IF Truthy(st.nearest)
    THEN [st EXCEPT !.route = Append(@, st.nearest),
                    !.total_time = @ + st.min_time,
                    !.unvisited = @ \ {st.nearest},
                    !.current = st.nearest,
                    !.pc = "while"]
    ELSE [st EXCEPT !.pc = "while"]

\* line 34
TspReturned(st) ==
    [pc |-> "done", stops |-> st.stops, asked |-> st.asked,
     unvisited |-> st.unvisited, current |-> st.current, route |-> st.route,
     total_time |-> st.total_time, nearest |-> st.nearest, min_time |-> st.min_time,
     result |-> [route |-> st.route, cost |-> st.total_time]]

(* ------------------------------ parallel.py --------------------------- *)

\* what a future holds once its call has ended: a returned value or an exception
Returned(v) == [kind |-> "result", value |-> v]
Raised == [kind |-> "exception"]
Nothing == [kind |-> "none"]

\* lines 11-13: process_request; unpacking anything but a pair raises
process_request(req) ==
    IF Len(req) # 2 THEN Raised ELSE Returned(a_star(req[1], req[2]))

\* lines 8-15: the call enters the with block, its pool of num_workers threads idle
BatchBegin(requests, num_workers) ==
    [pc |-> IF requests = <<>> THEN "collect" ELSE "submit",
     requests |-> requests, num_workers |-> num_workers,
     futures |-> <<>>, queue |-> <<>>,
     workers |-> [w \in 1..num_workers |-> 0],
     i |-> 1, results |-> <<>>, ret |-> Nothing, finish_order |-> <<>>]

\* line 16: executor.submit of the next request: a pending future, queued
BatchSubmitted(b) ==
    [b EXCEPT !.futures = Append(@, [state |-> "pending", outcome |-> Nothing]),
              !.queue = Append(@, Len(b.futures) + 1),
              !.pc = IF Len(b.futures) + 1 = Len(b.requests) THEN "collect" ELSE "submit"]

\* (mutant) a fresh thread is started for the work item, thread w staying free
WorkerTookSpawning(b, w) ==
    [b EXCEPT !.queue = Tail(@),
              !.futures[Head(b.queue)].state = "running"]

\* the pool's thread w takes the oldest queued work item
WorkerTook(b, w) ==
    [b EXCEPT !.workers[w] = Head(b.queue),
              !.queue = Tail(@),
              !.futures[Head(b.queue)].state = "running"]

\* thread w ends its call of process_request and sets the future
WorkerFinished(b, w) ==
    [b EXCEPT !.futures[b.workers[w]] =
                  [state |-> "finished",
                   outcome |-> process_request(b.requests[b.workers[w]])],
              !.finish_order = Append(@, b.workers[w]),
              !.workers[w] = 0]

\* (mutant) each result is put in front of the list
BatchCollectedFront(b) ==
    IF b.i > Len(b.futures) THEN [b EXCEPT !.pc = "exit"]
    ELSE IF b.futures[b.i].outcome.kind = "exception"
    THEN [b EXCEPT !.pc = "exit_raise"]
    ELSE [b EXCEPT !.results = <<b.futures[b.i].outcome.value>> \o @, !.i = @ + 1]

\* (mutant) a failed request is caught and left out of the list
BatchCollectedSkip(b) ==
    IF b.i > Len(b.futures) THEN [b EXCEPT !.pc = "exit"]
    ELSE IF b.futures[b.i].outcome.kind = "exception"
    THEN [b EXCEPT !.i = @ + 1]
    ELSE [b EXCEPT !.results = Append(@, b.futures[b.i].outcome.value), !.i = @ + 1]

\* line 17: f.result() of the next future, once it is finished: its value is
\* appended, or its exception leaves the comprehension and the with block
BatchCollected(b) ==
    IF b.i > Len(b.futures) THEN [b EXCEPT !.pc = "exit"]
    ELSE IF b.futures[b.i].outcome.kind = "exception"
    THEN [b EXCEPT !.pc = "exit_raise"]
    ELSE [b EXCEPT !.results = Append(@, b.futures[b.i].outcome.value), !.i = @ + 1]

\* lines 15-19: the with block has joined its threads; return results, or the
\* exception goes on to the caller
BatchExited(b) ==
    IF b.pc = "exit"
    THEN [b EXCEPT !.pc = "returned", !.ret = Returned(b.results)]
    ELSE [b EXCEPT !.pc = "raised", !.ret = Raised]

(* ------------------------------ the runs ------------------------------ *)

Init ==
    /\ GraphInit
    /\ phase = "build"
    /\ nEdgeCalls = 0
    /\ nNodeCalls = 0
    /\ query = <<>>
    /\ dj = Idle
    /\ ast = Idle
    /\ tsp = Idle
    /\ batch = Idle

\* main.py create_kampala_graph: one graph.add_node call
AddNode(positionsOffered, limit) ==
    /\ phase = "build"
    /\ nNodeCalls < limit
    /\ \E n \in NodeIds, p \in positionsOffered : add_node(n, p[1], p[2])
    /\ nNodeCalls' = nNodeCalls + 1
    /\ UNCHANGED <<phase, nEdgeCalls, pathVars, tsp, batch>>

\* main.py create_kampala_graph: one graph.add_edge call
AddEdge(limit) ==
    /\ phase = "build"
    /\ nEdgeCalls < limit
    /\ \E a \in NodeIds, b \in NodeIds, w \in Weights : add_edge(a, b, w)
    /\ nEdgeCalls' = nEdgeCalls + 1
    /\ UNCHANGED <<phase, nNodeCalls, pathVars, tsp, batch>>

\* main.py line 79: the graph is built; the query components are created
Serve ==
    /\ phase = "build"
    /\ phase' = "serve"
    /\ UNCHANGED <<graphVars, nEdgeCalls, nNodeCalls, pathVars, tsp, batch>>

\* test.py lines 17-25: a pair is routed with dijkstra, then with a_star
DijkstraCall ==
    /\ phase = "serve"
    /\ dj.pc = "idle"
    /\ \E s \in NodeIds, e \in NodeIds :
         /\ query' = <<s, e>>
         /\ dj' = DijkstraInit(s, e)
    /\ UNCHANGED <<buildVars, ast, tsp, batch>>

DijkstraStep ==
    /\ dj.pc = "loop"
    /\ dj' = DijkstraLoop(dj)
    /\ UNCHANGED <<buildVars, query, ast, tsp, batch>>

DijkstraDone ==
    /\ dj.pc = "path"
    /\ dj' = [pc |-> "done", start |-> dj.start, end |-> dj.end,
              popped |-> dj.popped, relaxed |-> dj.relaxed,
              result |-> DijkstraReturn(dj)]
    /\ UNCHANGED <<buildVars, query, ast, tsp, batch>>

AStarCall ==
    /\ dj.pc = "done"
    /\ ast.pc = "idle"
    /\ ast' = AStarInit(query[1], query[2])
    /\ UNCHANGED <<buildVars, query, dj, tsp, batch>>

AStarStep ==
    /\ ast.pc = "loop"
    /\ ast' = AStarLoop(ast)
    /\ UNCHANGED <<buildVars, query, dj, tsp, batch>>

AStarDone ==
    /\ ast.pc = "path"
    /\ ast' = [pc |-> "done", start |-> ast.start, end |-> ast.end,
               popped |-> ast.popped, relaxed |-> ast.relaxed,
               result |-> AStarReturn(ast)]
    /\ UNCHANGED <<buildVars, query, dj, tsp, batch>>

Next ==
    \/ AddNode(FewPositions, MaxNodeAdds)
    \/ AddEdge(MaxEdges)
    \/ Serve
    \/ DijkstraCall
    \/ DijkstraStep
    \/ DijkstraDone
    \/ AStarCall
    \/ AStarStep
    \/ AStarDone

Spec == Init /\ [][Next]_vars

\* main.py lines 27-77 with the calls in any order: a run that only builds
GraphNext ==
    \/ AddNode(GridPositions, MaxGridNodeAdds)
    \/ AddEdge(MaxGraphEdges)

GraphSpec == Init /\ [][GraphNext]_vars

\* the requests offered to simple_parallel: every pair, and two that are no pair
RequestsOffered == {<<s, e>> : s \in NodeIds, e \in NodeIds} \cup {<<0>>, <<0, 1, 2>>}

RequestLists == UNION {[1..n -> RequestsOffered] : n \in 0..MaxRequests}

\* main.py line 185: pp.simple_parallel(graph, requests_list)
BatchCall ==
    /\ phase = "serve"
    /\ batch.pc = "idle"
    /\ \E requests \in RequestLists, num_workers \in 1..MaxWorkers :
         batch' = BatchBegin(requests, num_workers)
    /\ UNCHANGED <<buildVars, pathVars, tsp>>

BatchSubmit ==
    /\ batch.pc = "submit"
    /\ batch' = BatchSubmitted(batch)
    /\ UNCHANGED <<buildVars, pathVars, tsp>>

WorkerTake ==
    /\ batch.pc \in {"submit", "collect", "exit", "exit_raise"}
    /\ batch.queue # <<>>
    /\ \E w \in 1..batch.num_workers :
         /\ batch.workers[w] = 0
         /\ batch' = WorkerTook(batch, w)
    /\ UNCHANGED <<buildVars, pathVars, tsp>>

\* (mutant) looking up an unknown start node inserts it, as adjacency[node_id]
\* on a defaultdict would
WorkerFinishInserting ==
    /\ batch.pc \in {"submit", "collect", "exit", "exit_raise"}
    /\ \E w \in 1..batch.num_workers :
         /\ batch.workers[w] # 0
         /\ batch' = WorkerFinished(batch, w)
         /\ adjacency' = IF Head(batch.requests[batch.workers[w]]) \in DOMAIN adjacency
                         THEN adjacency
                         ELSE DictSet(adjacency, Head(batch.requests[batch.workers[w]]), <<>>)
    /\ UNCHANGED <<positions, grid, phase, nEdgeCalls, nNodeCalls, pathVars, tsp>>

WorkerFinish ==
    /\ batch.pc \in {"submit", "collect", "exit", "exit_raise"}
    /\ \E w \in 1..batch.num_workers :
         /\ batch.workers[w] # 0
         /\ batch' = WorkerFinished(batch, w)
    /\ UNCHANGED <<buildVars, pathVars, tsp>>

\* f.result() blocks until the future is finished
BatchCollect ==
    /\ batch.pc = "collect"
    /\ batch.i <= Len(batch.futures) => batch.futures[batch.i].state = "finished"
    /\ batch' = BatchCollected(batch)
    /\ UNCHANGED <<buildVars, pathVars, tsp>>

\* ThreadPoolExecutor.__exit__: shutdown(wait=True) returns when the threads
\* have run every queued work item and ended
BatchExit ==
    /\ batch.pc \in {"exit", "exit_raise"}
    /\ batch.queue = <<>>
    /\ \A w \in 1..batch.num_workers : batch.workers[w] = 0
    /\ batch' = BatchExited(batch)
    /\ UNCHANGED <<buildVars, pathVars, tsp>>

BatchNext ==
    \/ AddEdge(MaxBatchEdges)
    \/ Serve
    \/ BatchCall
    \/ BatchSubmit
    \/ WorkerTake
    \/ WorkerFinish
    \/ BatchCollect
    \/ BatchExit

BatchSpec == Init /\ [][BatchNext]_vars

\* the stop lists offered to greedy_tsp
StopLists == UNION {[1..n -> NodeIds] : n \in 0..MaxStops}

\* main.py line 143: msr.greedy_tsp(stops_list)
TspCall ==
    /\ phase = "serve"
    /\ tsp.pc = "idle"
    /\ \E stops \in StopLists : tsp' = TspBegin(stops)
    /\ UNCHANGED <<buildVars, pathVars, batch>>

\* one pass of the for loop over the set unvisited, in one of its orders
TspScan ==
    /\ tsp.pc = "while"
    /\ tsp.unvisited # {}
    /\ \E order \in Orders(tsp.unvisited) : tsp' = TspScanned(tsp, order)
    /\ UNCHANGED <<buildVars, pathVars, batch>>

TspAdvance ==
    /\ tsp.pc = "if"
    /\ tsp' = TspAdvanced(tsp)
    /\ UNCHANGED <<buildVars, pathVars, batch>>

TspReturn ==
    /\ tsp.pc = "while"
    /\ tsp.unvisited = {}
    /\ tsp' = TspReturned(tsp)
    /\ UNCHANGED <<buildVars, pathVars, batch>>

TspNext ==
    \/ AddEdge(MaxEdges)
    \/ Serve
    \/ TspCall
    \/ TspScan
    \/ TspAdvance
    \/ TspReturn

TspSpec == Init /\ [][TspNext]_vars

\* greedy_tsp runs on one thread, which takes its next step whenever it has one
TspFairSpec ==
    TspSpec /\ WF_vars(TspScan) /\ WF_vars(TspAdvance) /\ WF_vars(TspReturn)

\* main.py lines 103-185: the handlers are coroutines that never await, so the
\* event loop runs one of them to its end before it starts the next; the only
\* threads are the pool's, inside simple_parallel
NoCallInFlight ==
    /\ phase = "serve"
    /\ dj.pc = "idle"
    /\ ast.pc = "idle"
    /\ tsp.pc = "idle"
    /\ batch.pc = "idle"

QueryDijkstraCall == NoCallInFlight /\ DijkstraCall

QueryTspCall == NoCallInFlight /\ TspCall

QueryBatchCall == NoCallInFlight /\ BatchCall

\* the handler returns its response; what the call allocated is dropped
Respond ==
    /\ \/ ast.pc = "done"
       \/ tsp.pc = "done"
       \/ batch.pc \in {"returned", "raised"}
    /\ query' = <<>>
    /\ dj' = Idle
    /\ ast' = Idle
    /\ tsp' = Idle
    /\ batch' = Idle
    /\ UNCHANGED buildVars

QueryNext ==
    \/ AddNode(FewPositions, MaxNodeAdds)
    \/ AddEdge(MaxQueryEdges)
    \/ Serve
    \/ QueryDijkstraCall
    \/ DijkstraStep
    \/ DijkstraDone
    \/ AStarCall
    \/ AStarStep
    \/ AStarDone
    \/ QueryTspCall
    \/ TspScan
    \/ TspAdvance
    \/ TspReturn
    \/ QueryBatchCall
    \/ BatchSubmit
    \/ WorkerTake
    \/ WorkerFinish
    \/ BatchCollect
    \/ BatchExit
    \/ Respond

QuerySpec == Init /\ [][QueryNext]_vars

(* ------------------- what the path claims speak of -------------------- *)

query_start == query[1]
query_end == query[2]
BothReturned == dj.pc = "done" /\ ast.pc = "done"

\* the travel times of the edges a's adjacency list holds towards b
EdgeWeights(a, b) ==
    {get_neighbors(a)[i][2] :
        i \in {j \in 1..Len(get_neighbors(a)) : get_neighbors(a)[j][1] = b}}

SetMin(S) == CHOOSE x \in S : \A y \in S : x <= y

\* node sequences of at most MaxNode + 2 nodes
NodeSeqs == UNION {[1..n -> NodeIds] : n \in 1..(MaxNode + 2)}

IsWalk(p) == \A i \in 1..(Len(p) - 1) : EdgeWeights(p[i], p[i + 1]) # {}

\* the paths of the graph from a to b (a node may repeat once: with positive
\* weights a longer path is never cheaper)
Walks(a, b) == {p \in NodeSeqs : p[1] = a /\ p[Len(p)] = b /\ IsWalk(p)}

RECURSIVE WalkCostFrom(_, _)
WalkCostFrom(p, i) ==
    IF i >= Len(p) THEN 0
    ELSE SetMin(EdgeWeights(p[i], p[i + 1])) + WalkCostFrom(p, i + 1)

\* the sum of the weights of the (lightest) edges along p
WalkCost(p) == WalkCostFrom(p, 1)

Reachable(a, b) == Walks(a, b) # {}

MinCost(a, b) == SetMin({WalkCost(p) : p \in Walks(a, b)})

\* C1: when end is reachable from start, the cost dijkstra and a_star return
\* is the minimum over all paths from start to end of the sum of the edge
\* weights; the early stop never returns more.
C1_MinimalCost ==
    (BothReturned /\ Reachable(query_start, query_end)) =>
        /\ dj.result.cost = MinCost(query_start, query_end)
        /\ ast.result.cost = MinCost(query_start, query_end)

\* a pair whose cheapest path has two hops although a heavier direct edge
\* joins it, settled by both algorithms after the early stop
C1_Witness ==
    /\ BothReturned
    /\ query_start # query_end
    /\ EdgeWeights(query_start, query_end) # {}
    /\ MinCost(query_start, query_end) < SetMin(EdgeWeights(query_start, query_end))
    /\ Len(dj.result.path) = 3
    /\ Len(ast.result.path) = 3

WellFormedPath(r, a, b) ==
    /\ Len(r.path) >= 1
    /\ r.path[1] = a
    /\ r.path[Len(r.path)] = b
    /\ IsWalk(r.path)
    /\ r.cost = WalkCost(r.path)
    /\ (a # b => r.cost > 0)

\* C2: for a reachable pair (a, b) the returned path starts at a, ends at b,
\* steps only along edges of the graph, and the returned cost is the sum of
\* the (lightest) edge weights along it; for a # b the cost is positive.
C2_PathWellFormed ==
    (BothReturned /\ Reachable(query_start, query_end)) =>
        /\ WellFormedPath(dj.result, query_start, query_end)
        /\ WellFormedPath(ast.result, query_start, query_end)

\* a two-hop result one of whose hops has parallel edges of different weight
C2_Witness ==
    /\ BothReturned
    /\ Len(dj.result.path) = 3
    /\ Len(ast.result.path) = 3
    /\ \E i \in 1..2 : Cardinality(EdgeWeights(dj.result.path[i], dj.result.path[i + 1])) = 2

\* C3: a_star and dijkstra return the same path and the same cost for every
\* pair, reachable or not, and pop and relax the same nodes in the same order.
C3_AStarIsDijkstra ==
    BothReturned =>
        /\ ast.result = dj.result
        /\ ast.popped = dj.popped
        /\ ast.relaxed = dj.relaxed

\* both calls returned after popping a stale entry and stopping at end
C3_Witness ==
    /\ BothReturned
    /\ Len(ast.popped) > Len(ast.relaxed) + 1
    /\ Len(ast.result.path) >= 2

\* both calls returned the direct edge, which a two-hop path ties with
C3_WitnessTie ==
    /\ BothReturned
    /\ query_start # query_end
    /\ EdgeWeights(query_start, query_end) # {}
    /\ \E m \in NodeIds \ {query_start, query_end} :
         /\ EdgeWeights(query_start, m) # {}
         /\ EdgeWeights(m, query_end) # {}
         /\ WalkCost(<<query_start, m, query_end>>) = MinCost(query_start, query_end)
    /\ SetMin(EdgeWeights(query_start, query_end)) = MinCost(query_start, query_end)
    /\ Len(ast.result.path) = 2

\* C4: dijkstra(n, n) and a_star(n, n) return ([n], 0) whatever edges n has.
C4_SelfRoute ==
    (BothReturned /\ query_start = query_end) =>
        /\ dj.result = [path |-> <<query_start>>, cost |-> 0]
        /\ ast.result = [path |-> <<query_start>>, cost |-> 0]

\* a self-route of a node that has a self-loop and another neighbour
C4_Witness ==
    /\ BothReturned
    /\ query_start = query_end
    /\ EdgeWeights(query_start, query_start) # {}
    /\ \E m \in NodeIds \ {query_start} : EdgeWeights(query_start, m) # {}

\* C5: for start # end with end not reachable from start (known to the graph
\* or not), both calls return the path [start] with cost +infinity.
C5_Unreachable ==
    (BothReturned /\ query_start # query_end /\ ~Reachable(query_start, query_end)) =>
        /\ dj.result = [path |-> <<query_start>>, cost |-> Inf]
        /\ ast.result = [path |-> <<query_start>>, cost |-> Inf]

\* an unreachable end that was never added, sought from a start with neighbours
C5_Witness ==
    /\ BothReturned
    /\ query_start # query_end
    /\ ~Reachable(query_start, query_end)
    /\ query_end \notin DOMAIN adjacency
    /\ Len(dj.relaxed) >= 2
    /\ Len(ast.relaxed) >= 2

\* an unreachable pair whose start was never added to the graph
C5_WitnessUnknownStart ==
    /\ BothReturned
    /\ query_start # query_end
    /\ query_start \notin DOMAIN adjacency
    /\ query_end \in DOMAIN adjacency

(* -------------------- what the tour claims speak of ------------------- *)

\* a + b on numbers extended with float('inf')
PyAdd(a, b) == IF a = Inf \/ b = Inf THEN Inf ELSE a + b

\* the sum over the consecutive pairs of r, from the i-th on, of the a_star cost
RECURSIVE SumPairsFrom(_, _)
SumPairsFrom(r, i) ==
    IF i >= Len(r) THEN 0
    ELSE PyAdd(a_star(r[i], r[i + 1]).cost, SumPairsFrom(r, i + 1))

SumPairs(r) == SumPairsFrom(r, 1)

\* C8: greedy_tsp of an empty list or of a single stop returns (stops, 0),
\* the stops unchanged, and calls a_star not once.
C8_FewStops ==
    (tsp.pc # "idle" /\ Len(tsp.stops) < 2) =>
        /\ tsp.pc = "done"
        /\ tsp.result = [route |-> tsp.stops, cost |-> 0]
        /\ tsp.asked = {}

\* a single stop that has neighbours in the graph was handed in and returned
C8_Witness ==
    /\ tsp.pc = "done"
    /\ Len(tsp.stops) = 1
    /\ get_neighbors(tsp.stops[1]) # <<>>

\* the empty stop list was handed in and returned
C8_WitnessEmpty ==
    /\ tsp.pc = "done"
    /\ tsp.stops = <<>>
    /\ adjacency # EmptyDict

\* C9: the total greedy_tsp returns is the sum, over the consecutive pairs
\* of the route it returns, of the cost a_star returns for the pair.
C9_TotalIsSum ==
    tsp.pc = "done" => tsp.result.cost = SumPairs(tsp.result.route)

\* a tour of three stops returned in another order than they were given
C9_Witness ==
    /\ tsp.pc = "done"
    /\ Len(tsp.result.route) = 3
    /\ tsp.result.route # tsp.stops
    /\ tsp.result.cost > 0
    /\ a_star(tsp.result.route[1], tsp.result.route[2]).cost
         # a_star(tsp.result.route[1], tsp.result.route[3]).cost

\* two or more stops, all nodes of the graph and each reachable from each
TspEligible ==
    /\ tsp.pc = "while"
    /\ Len(tsp.stops) >= 2
    /\ \A i \in 1..Len(tsp.stops) : tsp.stops[i] \in DOMAIN adjacency
    /\ \A i, j \in 1..Len(tsp.stops) : Reachable(tsp.stops[i], tsp.stops[j])

TspTerminated ==
    /\ tsp.pc = "done"
    /\ Len(tsp.stops) >= 2
    /\ tsp.unvisited = {}

\* C10: with two or more stops that are nodes of the graph and mutually
\* reachable (node 0 included, at any position), greedy_tsp eventually
\* terminates, and at termination the unvisited set is empty.
C10_TspTerminates == TspEligible ~> TspTerminated

\* a pass of the while loop appends a stop to the route
TspAppends ==
    /\ tsp.pc = "if"
    /\ tsp'.pc = "while"
    /\ Len(tsp'.route) = Len(tsp.route) + 1

\* the stops the route has visited so far
Visited == {tsp.route[i] : i \in 1..Len(tsp.route)}

\* the stop a pass appended is one of unvisited, no other stop of unvisited is
\* nearer to the current position by a_star cost, and current advances to it
TspPickedNearest(s) ==
    /\ s \in tsp.unvisited
    /\ \A o \in tsp.unvisited :
         ~PyLt(a_star(tsp.current, o).cost, a_star(tsp.current, s).cost)
    /\ tsp'.current = s

\* C17: at every step of greedy_tsp the stop appended to the route is a stop
\* not visited yet, whose a_star cost from the current position is less than or
\* equal to that of every other stop not visited yet; the current position then
\* advances to it
C17_NearestUnvisited ==
    [][TspAppends =>
          /\ tsp'.route[Len(tsp'.route)] \notin Visited
          /\ TspPickedNearest(tsp'.route[Len(tsp'.route)])]_vars

\* a call with two or more stops begins, one of them unreachable from another
\* (or unknown to the graph); no stop after the first is node 0
TspHasUnreachable ==
    /\ tsp.pc = "while"
    /\ Len(tsp.stops) >= 2
    /\ \A i \in 2..Len(tsp.stops) : Truthy(tsp.stops[i])
    /\ \E i, j \in 1..Len(tsp.stops) : ~Reachable(tsp.stops[i], tsp.stops[j])

\* C18: for two or more stops of which one is unreachable from the others or
\* was never added to the graph, greedy_tsp still terminates, returning a
\* (route, cost) or an explicit unreachable signal
C18_UnreachableAnswered == TspHasUnreachable ~> (tsp.pc = "done")

\* C19: whenever greedy_tsp returns for two or more stops, the route starts
\* with stops[0] and holds every distinct stop id of the input exactly once,
\* also when the input repeats an id (the starting stop included)
C19_EachStopOnce ==
    (tsp.pc = "done" /\ Len(tsp.stops) >= 2) =>
        /\ tsp.result.route[1] = tsp.stops[1]
        /\ \A i \in 1..Len(tsp.stops) : Count(tsp.result.route, tsp.stops[i]) = 1
        /\ \A i \in 1..Len(tsp.result.route) :
             \E j \in 1..Len(tsp.stops) : tsp.result.route[i] = tsp.stops[j]

(* ------------------- what the batch claims speak of ------------------- *)

WellFormed(req) == Len(req) = 2

BatchEnded == batch.pc \in {"returned", "raised"}

\* C6: over N well-formed requests simple_parallel returns a list of exactly
\* N results, result i being what a_star returns for request i, for every
\* pool size and every order in which the workers take and finish the calls.
C6_BatchInOrder ==
    (BatchEnded /\ \A k \in 1..Len(batch.requests) : WellFormed(batch.requests[k])) =>
        /\ batch.pc = "returned"
        /\ batch.ret.kind = "result"
        /\ Len(batch.ret.value) = Len(batch.requests)
        /\ \A k \in 1..Len(batch.requests) :
             batch.ret.value[k] = a_star(batch.requests[k][1], batch.requests[k][2])

\* two requests with different answers, the second finished before the first
C6_Witness ==
    /\ batch.pc = "returned"
    /\ batch.num_workers = 2
    /\ batch.finish_order = <<2, 1>>
    /\ batch.ret.value[1] # batch.ret.value[2]
    /\ Len(batch.ret.value[1].path) >= 2

\* C7: if the computation of any request of the batch raises, the call ends
\* by raising and its caller receives no result list, not even a partial one.
C7_BatchFailsWhole ==
    (BatchEnded /\ \E k \in 1..Len(batch.requests) : ~WellFormed(batch.requests[k])) =>
        /\ batch.pc = "raised"
        /\ batch.ret = Raised

\* the call raised although its first request had been computed and collected
C7_Witness ==
    /\ batch.pc = "raised"
    /\ Len(batch.results) = 1
    /\ batch.futures[1].outcome.kind = "result"
    /\ batch.futures[2].outcome.kind = "exception"

\* the call raised on its first request although the second was computed
C7_WitnessLater ==
    /\ batch.pc = "raised"
    /\ Len(batch.futures) = 2
    /\ batch.futures[1].outcome.kind = "exception"
    /\ batch.futures[2].outcome.kind = "result"

\* the request list is empty or holds a request that is no (start, end) pair
InvalidBatch ==
    /\ batch.pc # "idle"
    /\ \/ batch.requests = <<>>
       \/ \E k \in 1..Len(batch.requests) : ~WellFormed(batch.requests[k])

\* C13: given an empty request list, or a list holding a request that is no
\* (start, end) pair, simple_parallel signals the rejection to its caller and
\* submits no request of the batch to the pool
C13_InvalidRejected ==
    InvalidBatch => (batch.futures = <<>> /\ batch.pc # "returned")

\* C15: once a request's failure has reached simple_parallel, the failure can
\* go on to the caller at once: it does not wait for the requests of the batch
\* that are still queued or running
C15_FailFast ==
    batch.pc = "exit_raise" => ENABLED BatchExit

\* the requests a thread of the pool is executing
Running == {k \in 1..Len(batch.futures) : batch.futures[k].state = "running"}

\* C16: at every moment at most num_workers requests are being executed,
\* however many the batch holds; no request is executed twice, and when the
\* call has ended every request has been executed exactly once
C16_BoundedPool ==
    batch.pc # "idle" =>
        /\ Cardinality(Running) <= batch.num_workers
        /\ \A k \in 1..Len(batch.requests) : Count(batch.finish_order, k) <= 1
        /\ BatchEnded =>
              \A k \in 1..Len(batch.requests) : Count(batch.finish_order, k) = 1

\* a pool of one thread executes one request while the other waits in the queue
C16_Witness ==
    /\ batch.pc # "idle"
    /\ batch.num_workers = 1
    /\ Cardinality(Running) = 1
    /\ batch.queue # <<>>

\* the call has ended, its second request executed before its first
C16_WitnessEnded ==
    /\ BatchEnded
    /\ Len(batch.requests) = MaxRequests
    /\ batch.finish_order = <<2, 1>>

(* ------------------- what the graph claims speak of ------------------- *)

\* (b, w) is one of the pairs get_neighbors(a) returns
IsNeighbor(a, b, w) ==
    \E i \in 1..Len(get_neighbors(a)) : get_neighbors(a)[i] = <<b, w>>

\* C11: immediately after add_edge(a, b, w), for any a and b, known or unknown
\* beforehand, (b, w) is in get_neighbors(a) and (a, w) is in get_neighbors(b)
C11_EdgeBothWays ==
    [][\A a \in NodeIds, b \in NodeIds, w \in Weights :
          add_edge(a, b, w) => (IsNeighbor(a, b, w) /\ IsNeighbor(b, a, w))']_vars

\* one add_edge call on the empty graph, both endpoints unknown before it
C11_Witness ==
    /\ nEdgeCalls = 1
    /\ nNodeCalls = 0
    /\ \E a \in NodeIds, b \in NodeIds, w \in Weights :
         a # b /\ IsNeighbor(a, b, w) /\ IsNeighbor(b, a, w)

\* (b, w) occurs in adjacency[a] as many times as (a, w) occurs in adjacency[b]
Symmetric ==
    \A a \in NodeIds :
        \A i \in 1..Len(get_neighbors(a)) :
            Count(get_neighbors(a), get_neighbors(a)[i])
              = Count(get_neighbors(get_neighbors(a)[i][1]),
                      <<a, get_neighbors(a)[i][2]>>)

\* an add_node call naming a node that already has edges
AddNodeAfterEdges ==
    \E n \in NodeIds, p \in GridPositions :
        add_node(n, p[1], p[2]) /\ get_neighbors(n) # <<>>

\* C12 as stated: adjacency symmetry holds in every state reachable by any
\* sequence of add_node and add_edge calls, with the same multiplicity
C12_SymmetricAlways == Symmetric

\* C12 amended: every add_edge call, and every add_node call naming a node
\* that has no edges yet, takes a symmetric adjacency to a symmetric one (so
\* symmetry holds throughout when all nodes are added before edges)
C12_SymmetryKept == [][(Symmetric /\ ~AddNodeAfterEdges) => Symmetric']_vars

\* nodes were added, then an edge at one of them, and adjacency is symmetric
C12_Witness ==
    /\ nNodeCalls = MaxGridNodeAdds
    /\ nEdgeCalls >= 1
    /\ Symmetric
    /\ \E a \in DOMAIN positions : get_neighbors(a) # <<>>

\* 0.3 <= lat < 0.8 and 32.5 <= lon < 33.0, in hundredths of a degree
InBox(lat, lon) == 30 <= lat /\ lat < 80 /\ 3250 <= lon /\ lon < 3300

\* floor(n / d) for d > 0
Floor(n, d) == n \div d

\* the grid with node_id appended to the cell of (lat, lon), the cell being the
\* floor of the transform
GridWith(node_id, lat, lon) ==
    [grid EXCEPT ![Floor((lat - 30) * 20, 100)][Floor((lon - 3250) * 20, 100)] =
        Append(@, node_id)]

\* C20: add_node(id, lat, lon) puts id into the grid exactly when (lat, lon)
\* lies in the box 0.3 <= lat < 0.8, 32.5 <= lon < 33.0, in the cell
\* (floor((lat - 0.3) * 20), floor((lon - 32.5) * 20)); a node outside the box
\* (just below a lower bound, for one) gets its adjacency and position entries
\* and no grid cell
C20_GridExactlyInBox ==
    [][\A n \in NodeIds, p \in GridPositions :
          add_node(n, p[1], p[2]) =>
              /\ n \in DOMAIN adjacency'
              /\ positions'[n] = p
              /\ grid' = IF InBox(p[1], p[2]) THEN GridWith(n, p[1], p[2]) ELSE grid]_vars

(* ------------------- what the frame claim speaks of ------------------ *)

\* C14: once construction has finished, no step of a dijkstra, a_star,
\* greedy_tsp or simple_parallel call (with the get_neighbors calls they make,
\* unknown node ids included), in any sequence of calls and any interleaving
\* of the pool's threads, changes the adjacency map, the position map or the
\* grid
C14_GraphFrozen == [][phase = "serve" => UNCHANGED graphVars]_vars

\* two threads of the pool are executing a_star at once, one of them from a
\* start node the graph does not know, on a graph built by an add_node and an
\* add_edge call
C14_Witness ==
    /\ phase = "serve"
    /\ nNodeCalls = 1
    /\ nEdgeCalls = 1
    /\ batch.pc = "collect"
    /\ Cardinality(Running) = 2
    /\ \E k \in Running :
         /\ WellFormed(batch.requests[k])
         /\ batch.requests[k][1] \notin DOMAIN adjacency

\* a dijkstra call from a start node the graph does not know has looked it up
C14_WitnessUnknown ==
    /\ phase = "serve"
    /\ dj.pc = "done"
    /\ dj.start \notin DOMAIN adjacency
    /\ dj.start # dj.end
    /\ dj.popped = <<dj.start>>

(* ---------------- what the termination claim speaks of --------------- *)

\* a call of dijkstra or a_star in its while loop or past it
Called(st) == st.pc \in {"loop", "path", "done"}

\* in the call st every node was relaxed at most once: of the entries popped
\* for a node other than end the first was relaxed and the later ones skipped
RelaxedOnce(st) ==
    \A n \in NodeIds :
        /\ Count(st.relaxed, n) <= 1
        /\ n # st.end =>
             Count(st.relaxed, n) = (IF Count(st.popped, n) > 0 THEN 1 ELSE 0)

\* once end was popped the loop is left: end is the last node popped, popped
\* once, and never relaxed
StoppedAtEnd(st) ==
    Count(st.popped, st.end) > 0 =>
        /\ st.pc # "loop"
        /\ st.popped[Len(st.popped)] = st.end
        /\ Count(st.popped, st.end) = 1
        /\ Count(st.relaxed, st.end) = 0

\* the while loop pops at most once for the start and once for every entry
\* pushed, and the entries pushed are at most the 2 * nEdgeCalls neighbour
\* entries of the graph
PopsBounded(st) == Len(st.popped) <= 1 + 2 * nEdgeCalls

\* a step of the while loop leaves it or pops one more entry, so the loop ends
\* within the bound on the pops; past the loop nothing is relaxed
LoopAdvances(st, stNext) ==
    /\ (st.pc = "loop" /\ stNext # st) =>
          \/ stNext.pc = "path"
          \/ Len(stNext.popped) = Len(st.popped) + 1
    /\ (st.pc \in {"path", "done"} /\ stNext.pc \in {"path", "done"}) =>
          stNext.relaxed = st.relaxed

PathSafe(st) == Called(st) => (RelaxedOnce(st) /\ StoppedAtEnd(st) /\ PopsBounded(st))

\* C21: dijkstra and a_star terminate on every graph with positive weights
\* and every (start, end): each pass of the while loop leaves it or pops an
\* entry and the pops are bounded; within a call each node has its neighbours
\* relaxed at most once, later entries popped for it being skipped as stale;
\* no node is relaxed after end has been popped
C21_TerminatesRelaxingOnce ==
    /\ [](PathSafe(dj) /\ PathSafe(ast))
    /\ [][LoopAdvances(dj, dj') /\ LoopAdvances(ast, ast')]_vars

\* both calls have returned after a stale entry was popped and skipped: a
\* node was popped twice and relaxed once
C21_Witness ==
    /\ BothReturned
    /\ \E n \in NodeIds :
         /\ Count(dj.popped, n) = 2 /\ Count(dj.relaxed, n) = 1
         /\ Count(ast.popped, n) = 2 /\ Count(ast.relaxed, n) = 1

\* dijkstra has left its loop on popping end while entries were still queued
C21_WitnessEarlyStop ==
    /\ dj.pc = "path"
    /\ Count(dj.popped, dj.end) = 1
    /\ dj.relaxed # <<>>
    /\ dj.pq # <<>>

====
